---- MODULE Spec2Model ----
(***************************************************************************)
(* voronoi-painter (src/src/main.rs): the anchor sampler, the anchor cache *)
(* codec, the nearest-anchor search, the per-column pixel classifier, and  *)
(* main's choice between generating and loading the anchor points.         *)
(*                                                                         *)
(* Coordinates are f64 in the program.  The model keeps the integer        *)
(* lattice points of the plane: every comparison the program makes on      *)
(* coordinates and on squared distances is made here on exact integers.    *)
(*                                                                         *)
(* The specifications share the variables:                                 *)
(*   Spec         main, from the parsed arguments to the coloured anchors  *)
(*   FairSpec     Spec with the fairness of a running sequential program   *)
(*   SpecCodec    write_anchor_points_to_file / read_anchor_points_from_   *)
(*                file on arbitrary point lists and cache files            *)
(*   SpecClassify closest_anchor and pixel_calculator on arbitrary anchor  *)
(*                lists                                                    *)
(*   SpecPaint    main's orchestrator: the batches of column threads, the  *)
(*                joins and the writes of the output image                 *)
(***************************************************************************)
EXTENDS Integers, Sequences, FiniteSets, TLC

\* ---------------------------------------------------------------- bounds
\* Largest image width and height main is started with.
MaxWidth == 4
MaxHeight == 3
\* minimum_distance in a run of main.  main.rs:292 fixes 10 pixels; the model's
\* lattice is coarser, and the sampler runs with this many lattice units.
MainDistance == 2
\* Candidates drawn around every accepted anchor.  main.rs:106-108 draws 25;
\* the model runs the same loop with a smaller count.
NumCandidates == 2
\* Longest point list handed to the codec, or found in a cache file.
MaxCachePoints == 2
\* Largest coordinate of a point handed to the codec.
MaxCoord == 1
\* Most calls of write_all that fail during one save.
MaxWriteFailures == 1
\* minimum_distance of the classifier's specification, and the longest anchor
\* list and the image height it is run on.
ClassifyDistance == 4
MaxAnchors == 2
ClassifyHeight == 2
\* Columns per batch of threads.  main.rs:335-337 takes 10; the orchestrator
\* of the model runs the same loops with a smaller batch.
BatchSize == 2
\* Largest image width the orchestrator is run on.
PaintWidth == 5

\* ------------------------------------------------------------- geometry
Point(px, py) == [x |-> px, y |-> py]

\* Point::squared_distance_from
squared_distance_from(self, other_point) ==
    LET horizontal_distance == (self.x - other_point.x) * (self.x - other_point.x)
        vertical_distance == (self.y - other_point.y) * (self.y - other_point.y)
    IN  horizontal_distance + vertical_distance

\* Option<T>: None is the empty sequence, Some(v) the sequence of v alone.
None == <<>>
Some(v) == <<v>>

\* An early-accept test against the whole minimum distance: distance < d^2.
BelowFullDistance(distance, d) == distance < d * d

\* The early-accept branch of closest_anchor, line 39: distance < (d / 2)^2,
\* the division being exact in f64.
BelowHalfDistance(distance, d) == 4 * distance < d * d

\* One iteration of the loop of closest_anchor, lines 37-53: `closest` is
\* None or Some of the pair (index of the anchor kept, its distance).
closest_anchor_step(closest, i, distance, d) ==
    IF BelowHalfDistance(distance, d)
    THEN Some(<<i, distance>>)
    ELSE IF closest = None
         THEN Some(<<i, distance>>)
         ELSE IF closest[1][2] > distance
              THEN Some(<<i, distance>>)
              ELSE closest

RECURSIVE closest_anchor_scan(_, _, _, _, _)
closest_anchor_scan(self, anchors, d, i, closest) ==
    IF i > Len(anchors)
    THEN closest
    ELSE closest_anchor_scan(self, anchors, d, i + 1,
            closest_anchor_step(closest, i,
                squared_distance_from(self, anchors[i].point), d))

\* The index in `anchors` of the anchor closest_anchor returns; 0 for None.
closest_anchor_index(self, anchors, d) ==
    LET closest == closest_anchor_scan(self, anchors, d, 1, None)
    IN  IF closest = None THEN 0 ELSE closest[1][1]

\* Point::closest_anchor, lines 28-56.
closest_anchor(self, anchors, d) ==
    LET i == closest_anchor_index(self, anchors, d)
    IN  IF i = 0 THEN None ELSE Some(anchors[i])

\* -------------------------------------------------------------- sampler
\* Distance { minimum, maximum } of generate_anchor_points, lines 134-137.
Distance(d) == [minimum |-> d, maximum |-> d * 2]

\* The points random_point_at_certain_distance_from_given_point can compute
\* before its bounds test (lines 82-89): actual_distance lies in [minimum,
\* maximum] (the sum with a random multiple below maximum - minimum can round
\* up to maximum), at any angle.
Annulus(source_point, distance) ==
    {p \in [x : (source_point.x - distance.maximum)..(source_point.x + distance.maximum),
            y : (source_point.y - distance.maximum)..(source_point.y + distance.maximum)] :
        /\ squared_distance_from(p, source_point) >= distance.minimum * distance.minimum
        /\ squared_distance_from(p, source_point) <= distance.maximum * distance.maximum}

\* The lattice points of the image and of the ring of width 1 around it: every
\* point the bounds test lets through is one of them.
Surroundings(bnd) == [x : (0 - 1)..bnd.width, y : (0 - 1)..bnd.height]

\* A horizontal test that lets x = 0 through.
is_point_in_horizontal_bounds_inclusive(point, bnd) ==
    (point.x >= 0) /\ (point.x < bnd.width)

is_point_in_horizontal_bounds(point, bnd) ==
    (point.x > 0) /\ (point.x < bnd.width)

is_point_in_vertical_bounds(point, bnd) ==
    (point.y > 0) /\ (point.y < bnd.height)

\* The test of line 94.
InBounds(point, bnd) ==
    is_point_in_horizontal_bounds(point, bnd) /\ is_point_in_vertical_bounds(point, bnd)

\* The seed of generate_anchor_points, lines 127-130: rng.gen::<f64>() lies in
\* [0, 1), so each coordinate lies in [0, dimension): 0 included.
FirstAnchors(bnd) ==
    [x : 0..(bnd.width - 1), y : 0..(bnd.height - 1)]

\* A validity loop that compares the candidate with the last accepted anchor
\* only.
is_valid_anchor_last_only(candidate, anchors, d) ==
    anchors # <<>> =>
        ~(squared_distance_from(anchors[Len(anchors)], candidate) < d * d)

\* The validity loop of generate_anchor_points, lines 122 and 146-153.  The
\* u32 product cannot wrap for the distances of the model.
is_valid_anchor(candidate, anchors, d) ==
    LET squared_minimum_distance == d * d
    IN  \A i \in 1..Len(anchors) :
            ~(squared_distance_from(anchors[i], candidate) < squared_minimum_distance)

\* ---------------------------------------------------------------- codec
\* io::Result<Vec<Point>>
Ok(v) == [ok |-> TRUE, points |-> v]
Err == [ok |-> FALSE, points |-> <<>>]

\* A file of the cache path: absent, or present with its bytes.
Missing == [exists |-> FALSE, bytes |-> <<>>]
File(bytes) == [exists |-> TRUE, bytes |-> bytes]

RECURSIVE Pow2(_)
Pow2(n) == IF n = 0 THEN 1 ELSE 2 * Pow2(n - 1)

RECURSIVE ILog2(_)
ILog2(v) == IF v < 2 THEN 0 ELSE 1 + ILog2(v \div 2)

Abs(v) == IF v < 0 THEN 0 - v ELSE v

\* f64::to_bits of an integer of magnitude below 32, as four 16-bit limbs,
\* least significant first: sign, biased exponent 1023 + e and the top four
\* bits of the mantissa fill the last limb, the lower 48 bits are zero.
f64_to_bits(v) ==
    IF v = 0
    THEN <<0, 0, 0, 0>>
    ELSE LET e == ILog2(Abs(v))
             sign == IF v < 0 THEN 32768 ELSE 0
             mantissa == ((Abs(v) - Pow2(e)) * 16) \div Pow2(e)
         IN  <<0, 0, 0, sign + (1023 + e) * 16 + mantissa>>

\* An f64 that is not an integer of magnitude below 32: the model does not tell
\* these values apart.
OtherFloat == 0 - 1000

\* f64::from_bits: the integer the bits encode, when they encode one of
\* magnitude below 32.
f64_from_bits(limbs) ==
    LET top == limbs[4]
        biased == (top % 32768) \div 16
        fraction == top % 16
    IN  IF limbs[1] # 0 \/ limbs[2] # 0 \/ limbs[3] # 0
        THEN OtherFloat
        ELSE IF top % 32768 = 0
             THEN 0
             ELSE IF biased < 1023 \/ biased > 1027
                       \/ (fraction * Pow2(biased - 1023)) % 16 # 0
                  THEN OtherFloat
                  ELSE LET magnitude == (Pow2(biased - 1023) * (16 + fraction)) \div 16
                       IN  IF top >= 32768 THEN 0 - magnitude ELSE magnitude

\* LittleEndian::write_f64 (lines 247, 252): the eight bytes of the bits,
\* least significant byte first.
write_f64(v) ==
    LET limbs == f64_to_bits(v)
    IN  [i \in 1..8 |->
            IF i % 2 = 1 THEN limbs[(i + 1) \div 2] % 256
                         ELSE limbs[i \div 2] \div 256]

\* A read of the eight bytes most significant byte first.
read_f64_big_endian(buffer) ==
    f64_from_bits([j \in 1..4 |-> buffer[10 - 2 * j] + 256 * buffer[9 - 2 * j]])

\* LittleEndian::read_f64 (lines 220, 226).
read_f64(buffer) ==
    f64_from_bits([j \in 1..4 |-> buffer[2 * j - 1] + 256 * buffer[2 * j]])

Take(s, n) == SubSeq(s, 1, n)
Drop(s, n) == SubSeq(s, n + 1, Len(s))

\* A loop that keeps a lone x, pairing it with a y of 0.
RECURSIVE read_loop_keeps_lone_x(_, _)
read_loop_keeps_lone_x(bytes, anchor_points) ==
    IF Len(bytes) < 8
    THEN anchor_points
    ELSE LET x == read_f64(Take(bytes, 8))
             rest == Drop(bytes, 8)
         IN  IF Len(rest) < 8
             THEN Append(anchor_points, Point(x, 0))
             ELSE LET y == read_f64(Take(rest, 8))
                  IN  read_loop_keeps_lone_x(Drop(rest, 8), Append(anchor_points, Point(x, y)))

\* The loop of read_anchor_points_from_file, lines 218-233: read_exact fails
\* when fewer than 8 bytes are left, and either failure leaves the loop.
RECURSIVE read_loop(_, _)
read_loop(bytes, anchor_points) ==
    IF Len(bytes) < 8
    THEN anchor_points
    ELSE LET x == read_f64(Take(bytes, 8))
             rest == Drop(bytes, 8)
         IN  IF Len(rest) < 8
             THEN anchor_points
             ELSE LET y == read_f64(Take(rest, 8))
                  IN  read_loop(Drop(rest, 8), Append(anchor_points, Point(x, y)))


\* A load that takes an absent file for an empty one.
read_anchor_points_or_empty(f) ==
    IF ~f.exists THEN Ok(<<>>) ELSE Ok(read_loop(f.bytes, <<>>))

\* read_anchor_points_from_file, lines 211-236: File::open fails on an absent
\* file and `?` returns the error; otherwise the loop's points are returned.
read_anchor_points_from_file(f) ==
    IF ~f.exists THEN Err ELSE Ok(read_loop(f.bytes, <<>>))

\* The coordinate the k-th write_all of write_anchor_points_to_file sends:
\* x then y of each point in turn (lines 246-257).
WrittenCoord(anchor_points, k) ==
    IF k % 2 = 1 THEN anchor_points[(k + 1) \div 2].x ELSE anchor_points[k \div 2].y

\* What the calls of write_all do during one save: how many of its 8 bytes
\* each call gets into the file.  8 is a call that succeeds; a call that fails
\* has written fewer, and the loop goes on to the next call either way (lines
\* 248-251, 253-256).
RECURSIVE WritePatterns(_, _)
WritePatterns(n, failures) ==
    IF n = 0
    THEN {<<>>}
    ELSE {Append(w, 8) : w \in WritePatterns(n - 1, failures)}
         \cup (IF failures = 0
               THEN {}
               ELSE {Append(w[1], w[2]) :
                        w \in WritePatterns(n - 1, failures - 1) \X (0..7)})

\* The buffer write_f64 fills for each coordinate a save can be handed: the
\* sampler's points lie inside the largest image, the codec's own within
\* MaxCoord.
WrittenBuffers == [v \in 0..(MaxWidth + MaxHeight + MaxCoord) |-> write_f64(v)]

\* The loop of write_anchor_points_to_file, lines 246-257: the k-th write_all
\* appends the first pattern[k] bytes of its buffer.
RECURSIVE write_loop(_, _, _, _)
write_loop(anchor_points, pattern, k, bytes) ==
    IF k > 2 * Len(anchor_points)
    THEN bytes
    ELSE write_loop(anchor_points, pattern, k + 1,
            bytes \o Take(WrittenBuffers[WrittenCoord(anchor_points, k)], pattern[k]))

\* The file write_anchor_points_to_file leaves once File::create has
\* succeeded: created empty (truncated), then the loop's bytes.
write_anchor_points_to_file(anchor_points, pattern) ==
    File(write_loop(anchor_points, pattern, 1, <<>>))

WriteFailed(pattern) == \E k \in 1..Len(pattern) : pattern[k] < 8

\* All sequences over S of length at most n.
RECURSIVE SeqsUpTo(_, _)
SeqsUpTo(S, n) ==
    IF n = 0
    THEN {<<>>}
    ELSE LET shorter == SeqsUpTo(S, n - 1)
         IN  shorter \cup {Append(s, e) : s \in {t \in shorter : Len(t) = n - 1}, e \in S}

\* The bytes of a complete save of the points.
Encode(anchor_points) ==
    write_loop(anchor_points, [k \in 1..(2 * Len(anchor_points)) |-> 8], 1, <<>>)

\* The cache files a complete or interrupted earlier save of the points can
\* have left: every prefix of its bytes.
SavedFiles(anchor_points) ==
    {File(Take(Encode(anchor_points), n)) : n \in 0..(16 * Len(anchor_points))}

\* ----------------------------------------------------------- colorizer
\* `as u32` on a coordinate (lines 322-323): truncation, negative values to 0.
AsU32(v) == IF v < 0 THEN 0 ELSE v

\* input_image.get_pixel(x, y) of an image in which every pixel has a colour
\* of its own; any other image of the same size recolours this one.
get_pixel(x, y, bnd) == y * bnd.width + x

\* get_pixel panics outside the image.
PixelInImage(x, y, bnd) == x < bnd.width /\ y < bnd.height

\* The loop of main, lines 320-328.
Colorize(anchor_points, bnd) ==
    [i \in 1..Len(anchor_points) |->
        [point |-> anchor_points[i],
         color |-> get_pixel(AsU32(anchor_points[i].x), AsU32(anchor_points[i].y), bnd)]]

\* ---------------------------------------------------------- classifier
\* A column filter that also keeps the anchors at exactly the minimum distance.
ColumnKeepsInclusive(anchor, x, d) ==
    (anchor.point.x >= x - d) /\ (anchor.point.x <= x + d)

\* The column filter of pixel_calculator, lines 183-189; the column and the
\* distance are cast to i64 before the subtraction, so x - d can be negative.
ColumnKeeps(anchor, x, d) ==
    (anchor.point.x > x - d) /\ (anchor.point.x < x + d)

RECURSIVE filter_anchors(_, _, _)
filter_anchors(anchors, x, d) ==
    IF anchors = <<>>
    THEN <<>>
    ELSE IF ColumnKeeps(Head(anchors), x, d)
         THEN <<Head(anchors)>> \o filter_anchors(Tail(anchors), x, d)
         ELSE filter_anchors(Tail(anchors), x, d)

\* The row loop of pixel_calculator, lines 191-204.
RECURSIVE classify_rows(_, _, _, _, _, _)
classify_rows(x, y, image_height, filtered_anchors, d, pixels) ==
    IF y >= image_height
    THEN pixels
    ELSE LET point == Point(x, y)
             closest == closest_anchor(point, filtered_anchors, d)
         IN  classify_rows(x, y + 1, image_height, filtered_anchors, d,
                IF closest = None
                THEN pixels
                ELSE Append(pixels, <<point, closest[1].color>>))

\* pixel_calculator, lines 173-209.
pixel_calculator(x, image_height, anchors, d) ==
    classify_rows(x, 0, image_height, filter_anchors(anchors, x, d), d, <<>>)

\* ---------------------------------------------------------------- state
VARIABLES
    mode,               \* which program the behaviour runs: "main", "codec", "classify"
    pc,                 \* the position in it
    bounds,             \* Bounds { width, height }: the image's dimensions
    minimum_distance,
    anchors_arg,        \* whether --anchors <path> was given
    file,               \* the file of the cache path
    final_anchors,      \* generate_anchor_points: the accepted anchors, in order
    anchor_candidates,  \* generate_anchor_points: the frontier queue
    source,             \* the anchor generate_anchor_candidates draws around
    gen_left,           \* iterations left of generate_anchor_candidates' loop
    generated,          \* candidates pushed on the frontier since the seed
    examined,           \* candidates popped off the frontier since the seed
    anchor_points,      \* main's anchor_points; the list handed to the codec
    read_result,        \* what read_anchor_points_from_file returned
    write_result,       \* "none", or what write_anchor_points_to_file returned
    write_failed,       \* whether a write_all of the last save failed
    anchors,            \* main's Vec<Anchor>; the classifier's anchor list
    call,               \* the classifier's last call and what it returned
    step,               \* the orchestrator's batch: its first column
    thread_pool,        \* the threads of the batch, in the order of their spawn
    joined,             \* how many threads of thread_pool have been joined
    output_image_buffer,\* the output image: per pixel, None or the colour put
    put_calls,          \* per pixel, the calls of put_pixel so far
    spawned,            \* the columns thread::spawn was called for, in order
    completion          \* the columns of the batch's threads that have ended, in order

vars == <<mode, pc, bounds, minimum_distance, anchors_arg, file,
          final_anchors, anchor_candidates, source, gen_left, generated, examined,
          anchor_points, read_result, write_result, write_failed, anchors, call,
          step, thread_pool, joined, output_image_buffer, put_calls, spawned,
          completion>>

environment == <<mode, bounds, minimum_distance, anchors_arg>>
sampler == <<final_anchors, anchor_candidates, source, gen_left, generated, examined>>
codec == <<file, read_result, write_result, write_failed>>
painter == <<step, thread_pool, joined, output_image_buffer, put_calls, spawned, completion>>

NoPoint == Point(0 - 1, 0 - 1)
NoResult == [ok |-> FALSE, points |-> <<NoPoint>>]
NoCall == [op |-> "none", p |-> NoPoint, x |-> 0 - 1, index |-> 0,
           result |-> None, filtered_anchors |-> <<>>, pixels |-> <<>>]

\* The points of the cache files main is started on: inside the smallest
\* image, closer together than the minimum distance, and outside every image.
CachePoints == {Point(0, 0), Point(1, 1), Point(2, 1), Point(MaxWidth, MaxHeight)}

CacheFiles ==
    {Missing} \cup UNION {SavedFiles(l) : l \in SeqsUpTo(CachePoints, MaxCachePoints)}

IdleSampler ==
    /\ final_anchors = <<>>
    /\ anchor_candidates = <<>>
    /\ source = NoPoint
    /\ gen_left = 0
    /\ generated = 0
    /\ examined = 0

IdleCodec ==
    /\ read_result = NoResult
    /\ write_result = "none"
    /\ write_failed = FALSE

\* Before the output image is created (line 332).
IdlePainter ==
    /\ step = 0
    /\ thread_pool = <<>>
    /\ joined = 0
    /\ output_image_buffer = <<>>
    /\ put_calls = <<>>
    /\ spawned = <<>>
    /\ completion = <<>>

\* main after the arguments are parsed and the image is opened (line 297).
Init ==
    /\ mode = "main"
    /\ pc = "main"
    /\ bounds \in [width : 1..MaxWidth, height : 1..MaxHeight]
    /\ minimum_distance = MainDistance
    /\ anchors_arg \in BOOLEAN
    /\ file \in (IF anchors_arg THEN CacheFiles ELSE {Missing})
    /\ IdleSampler
    /\ IdleCodec
    /\ anchor_points = <<>>
    /\ anchors = <<>>
    /\ call = NoCall
    /\ IdlePainter

\* ------------------------------------------------------- sampler actions
\* generate_anchor_points, lines 119-138: the seed is accepted unchecked and
\* the first round of candidates starts.
Seed ==
    /\ pc = "seed"
    /\ \E first_anchor \in FirstAnchors(bounds) :
        /\ final_anchors' = <<first_anchor>>
        /\ source' = first_anchor
    /\ anchor_candidates' = <<>>
    /\ gen_left' = NumCandidates
    /\ generated' = 0
    /\ examined' = 0
    /\ pc' = "gen"
    /\ UNCHANGED <<environment, codec, anchor_points, anchors, call, painter>>

\* One call of random_point_at_certain_distance_from_given_point that returns:
\* the point drawn is inside the bounds and is pushed (lines 94-95, 109).
DrawInBounds ==
    /\ pc = "gen"
    /\ gen_left > 0
    /\ \E point \in Surroundings(bounds) :
        /\ point \in Annulus(source, Distance(minimum_distance))
        /\ InBounds(point, bounds)
        /\ anchor_candidates' = Append(anchor_candidates, point)
    /\ gen_left' = gen_left - 1
    /\ generated' = generated + 1
    /\ UNCHANGED <<pc, environment, codec, final_anchors, source, examined,
                   anchor_points, anchors, call, painter>>

\* One call that does not return: the point drawn is outside the bounds and the
\* function calls itself with the same arguments (lines 96-97).  Nothing its
\* caller can see changes.
DrawOutOfBounds ==
    /\ pc = "gen"
    /\ gen_left > 0
    /\ ~(\A point \in Annulus(source, Distance(minimum_distance)) : InBounds(point, bounds))
    /\ UNCHANGED vars

\* generate_anchor_candidates returns (line 116) and the frontier is extended
\* (lines 138, 161-162).
GenDone ==
    /\ pc = "gen"
    /\ gen_left = 0
    /\ pc' = "pop"
    /\ UNCHANGED <<environment, codec, sampler, anchor_points, anchors, call, painter>>

\* An iteration that puts a rejected candidate back at the tail of the
\* frontier.
PopCandidateRequeue ==
    /\ pc = "pop"
    /\ IF anchor_candidates = <<>>
       THEN /\ pc' = "generated"
            /\ UNCHANGED sampler
       ELSE LET candidate == Head(anchor_candidates)
            IN  /\ examined' = examined + 1
                /\ generated' = generated
                /\ IF is_valid_anchor(candidate, final_anchors, minimum_distance)
                   THEN /\ anchor_candidates' = Tail(anchor_candidates)
                        /\ final_anchors' = Append(final_anchors, candidate)
                        /\ source' = candidate
                        /\ gen_left' = NumCandidates
                        /\ pc' = "gen"
                   ELSE /\ anchor_candidates' = Append(Tail(anchor_candidates), candidate)
                        /\ UNCHANGED <<final_anchors, source, gen_left, pc>>
    /\ UNCHANGED <<environment, codec, anchor_points, anchors, call, painter>>

\* One iteration of the loop of generate_anchor_points, lines 140-168; on an
\* empty frontier the function returns final_anchors (line 170).
PopCandidate ==
    /\ pc = "pop"
    /\ IF anchor_candidates = <<>>
       THEN /\ pc' = "generated"
            /\ UNCHANGED sampler
       ELSE LET candidate == Head(anchor_candidates)
            IN  /\ anchor_candidates' = Tail(anchor_candidates)
                /\ examined' = examined + 1
                /\ generated' = generated
                /\ IF is_valid_anchor(candidate, final_anchors, minimum_distance)
                   THEN /\ final_anchors' = Append(final_anchors, candidate)
                        /\ source' = candidate
                        /\ gen_left' = NumCandidates
                        /\ pc' = "gen"
                   ELSE UNCHANGED <<final_anchors, source, gen_left, pc>>
    /\ UNCHANGED <<environment, codec, anchor_points, anchors, call, painter>>

\* ---------------------------------------------------------- main actions
\* main, lines 298-301: without --anchors the points are generated, with it
\* the cache file is read.
MainStart ==
    /\ pc = "main"
    /\ pc' = IF anchors_arg THEN "read" ELSE "seed"
    /\ UNCHANGED <<environment, codec, sampler, anchor_points, anchors, call, painter>>

\* main, lines 301-305: the points of an Ok are used as they are; an Err
\* starts the sampler.
MainRead ==
    /\ pc = "read"
    /\ read_result' = read_anchor_points_from_file(file)
    /\ IF read_result'.ok
       THEN /\ anchor_points' = read_result'.points
            /\ pc' = "colorize"
       ELSE /\ anchor_points' = anchor_points
            /\ pc' = "seed"
    /\ UNCHANGED <<environment, file, write_result, write_failed, sampler, anchors, call, painter>>

\* main, lines 299 and 304-306: generate_anchor_points has returned.
MainGenerated ==
    /\ pc = "generated"
    /\ anchor_points' = final_anchors
    /\ pc' = IF anchors_arg THEN "write" ELSE "colorize"
    /\ UNCHANGED <<environment, codec, sampler, anchors, call, painter>>

\* write_anchor_points_to_file, lines 238-260: File::create fails and `?`
\* returns the error, or the file is created and every point is written, the
\* failures of write_all being ignored.
Save ==
    \/ /\ write_result' = "err"
       /\ write_failed' = FALSE
       /\ UNCHANGED file
    \/ /\ \E pattern \in WritePatterns(2 * Len(anchor_points), MaxWriteFailures) :
            /\ file' = write_anchor_points_to_file(anchor_points, pattern)
            /\ write_failed' = WriteFailed(pattern)
       /\ write_result' = "ok"

\* main, lines 306-314: the result of the save is ignored.
MainWrite ==
    /\ pc = "write"
    /\ Save
    /\ pc' = "colorize"
    /\ UNCHANGED <<environment, read_result, sampler, anchor_points, anchors, call, painter>>

\* main, lines 320-328: get_pixel panics on a point outside the image.
MainColorize ==
    /\ pc = "colorize"
    /\ IF \A i \in 1..Len(anchor_points) :
            PixelInImage(AsU32(anchor_points[i].x), AsU32(anchor_points[i].y), bounds)
       THEN /\ anchors' = Colorize(anchor_points, bounds)
            /\ pc' = "paint"
       ELSE /\ anchors' = anchors
            /\ pc' = "panicked"
    /\ UNCHANGED <<environment, codec, sampler, anchor_points, call, painter>>

Next ==
    \/ MainStart
    \/ MainRead
    \/ Seed
    \/ DrawInBounds
    \/ DrawOutOfBounds
    \/ GenDone
    \/ PopCandidate
    \/ MainGenerated
    \/ MainWrite
    \/ MainColorize

Spec == Init /\ [][Next]_vars

\* A running sequential program takes its next step.  A draw that lands
\* outside the bounds changes nothing, so the fairness asks for a step that
\* changes the state whenever one is possible.
FairSpec == Spec /\ WF_vars(Next)

\* ------------------------------------------------- the codec on its own
\* The points handed to the codec: x + y = MaxCoord, so that a point's two
\* coordinates differ and no two points share an x or a y.
CodecPoints == {Point(v, MaxCoord - v) : v \in 0..MaxCoord}

\* A point list to save, and a cache path that holds nothing or what an
\* earlier save of the list, complete or cut short, has left.
InitCodec ==
    /\ mode = "codec"
    /\ pc = "codec"
    /\ bounds = [width |-> MaxCoord + 1, height |-> MaxCoord + 1]
    /\ minimum_distance = MainDistance
    /\ anchors_arg = TRUE
    /\ anchor_points \in SeqsUpTo(CodecPoints, MaxCachePoints)
    /\ file \in {Missing} \cup SavedFiles(anchor_points)
    /\ IdleSampler
    /\ IdleCodec
    /\ anchors = <<>>
    /\ call = NoCall
    /\ IdlePainter

\* save(points, path)
CodecSave ==
    /\ pc = "codec"
    /\ Save
    /\ pc' = "saved"
    /\ UNCHANGED <<environment, read_result, sampler, anchor_points, anchors, call, painter>>

\* load(path), on the path as it was found or after the save.
CodecLoad ==
    /\ pc \in {"codec", "saved"}
    /\ read_result' = read_anchor_points_from_file(file)
    /\ pc' = "loaded"
    /\ UNCHANGED <<environment, file, write_result, write_failed, sampler,
                   anchor_points, anchors, call, painter>>

NextCodec == CodecSave \/ CodecLoad

SpecCodec == InitCodec /\ [][NextCodec]_vars

\* -------------------------------------------- the classifier on its own
ClassifyBounds == [width |-> 2 * ClassifyDistance + 1, height |-> ClassifyHeight]

\* The lattice points of the classifier's image: its pixels.
ClassifyPoints == [x : 0..(ClassifyBounds.width - 1), y : 0..(ClassifyBounds.height - 1)]

\* Any anchor list over the pixels of the image, coloured as main colours it.
InitClassify ==
    /\ mode = "classify"
    /\ pc = "classify"
    /\ bounds = ClassifyBounds
    /\ minimum_distance = ClassifyDistance
    /\ anchors_arg = FALSE
    /\ file = Missing
    /\ IdleSampler
    /\ IdleCodec
    /\ anchor_points \in SeqsUpTo(ClassifyPoints, MaxAnchors)
    /\ anchors = Colorize(anchor_points, bounds)
    /\ call = NoCall
    /\ IdlePainter

\* p.closest_anchor(&anchors, minimum_distance) for a pixel p.
CallClosestAnchor ==
    /\ pc = "classify"
    /\ \E p \in ClassifyPoints :
        call' = [op |-> "closest_anchor", p |-> p, x |-> 0 - 1,
                 index |-> closest_anchor_index(p, anchors, minimum_distance),
                 result |-> closest_anchor(p, anchors, minimum_distance),
                 filtered_anchors |-> <<>>, pixels |-> <<>>]
    /\ pc' = "classified"
    /\ UNCHANGED <<environment, codec, sampler, anchor_points, anchors, painter>>

\* pixel_calculator(x, image_height, anchors, minimum_distance) for a column x.
CallPixelCalculator ==
    /\ pc = "classify"
    /\ \E x \in 0..(bounds.width - 1) :
        call' = [op |-> "pixel_calculator", p |-> NoPoint, x |-> x, index |-> 0,
                 result |-> None,
                 filtered_anchors |-> filter_anchors(anchors, x, minimum_distance),
                 pixels |-> pixel_calculator(x, bounds.height, anchors, minimum_distance)]
    /\ pc' = "classified"
    /\ UNCHANGED <<environment, codec, sampler, anchor_points, anchors, painter>>

NextClassify == CallClosestAnchor \/ CallPixelCalculator

SpecClassify == InitClassify /\ [][NextClassify]_vars

\* ------------------------------------------- the orchestrator on its own
\* The pixels of an image.
Pixels(bnd) == [x : 0..(bnd.width - 1), y : 0..(bnd.height - 1)]

\* image::ImageBuffer::new (line 332): every pixel at its default.
NewBuffer(bnd) == [pixel \in Pixels(bnd) |-> None]

\* output_image_buffer.put_pixel(coordinates.x as u32, coordinates.y as u32,
\* color), lines 359-363.
put_pixel(buffer, coordinates, color) ==
    [buffer EXCEPT ![Point(AsU32(coordinates.x), AsU32(coordinates.y))] = Some(color)]

\* The loop over a thread's pixels, lines 358-364.
RECURSIVE put_pixels(_, _)
put_pixels(buffer, pixels) ==
    IF pixels = <<>>
    THEN buffer
    ELSE put_pixels(put_pixel(buffer, Head(pixels)[1], Head(pixels)[2]), Tail(pixels))

\* The calls of put_pixel the same loop makes, counted per pixel.
RECURSIVE count_puts(_, _)
count_puts(calls, pixels) ==
    IF pixels = <<>>
    THEN calls
    ELSE count_puts(
            [calls EXCEPT ![Point(AsU32(Head(pixels)[1].x), AsU32(Head(pixels)[1].y))] = @ + 1],
            Tail(pixels))

\* A column that leaves the batch's first column out.
UnitColumnInBatch(batch, x) == x

\* The column of the x-th thread of a batch, line 344: x + step.
UnitColumn(batch, x) == x + batch

\* A test that lets the column image_width through.
PastLastColumnExclusive(x, batch, image_width) == (x + batch) > image_width

\* The test that ends the spawning of a batch early, line 338.
PastLastColumn(x, batch, image_width) == (x + batch) >= image_width

\* The pixels of the thread that ended last, whichever thread is joined.
LastEndedPixels(pool, k, ended) ==
    pool[ended[Len(ended)] - pool[1].column + 1].pixels

\* The pixels thread.join() hands over (line 357): those the joined thread
\* computed.
JoinedPixels(pool, k, ended) == pool[k].pixels

\* The anchors the orchestrator is run on lie on the top row of the image.
PaintPoints(bnd) == {Point(x, 0) : x \in 0..(bnd.width - 1)}

\* main after the anchors are coloured and the output image is created (lines
\* 330-333).
InitPaint ==
    /\ mode = "paint"
    /\ pc = "spawn"
    /\ bounds \in [width : 1..PaintWidth, height : {ClassifyHeight}]
    /\ minimum_distance = MainDistance
    /\ anchors_arg = FALSE
    /\ file = Missing
    /\ IdleSampler
    /\ IdleCodec
    /\ anchor_points \in SeqsUpTo(PaintPoints(bounds), MaxAnchors)
    /\ anchors = Colorize(anchor_points, bounds)
    /\ call = NoCall
    /\ step = 0
    /\ thread_pool = <<>>
    /\ joined = 0
    /\ output_image_buffer = NewBuffer(bounds)
    /\ put_calls = [pixel \in Pixels(bounds) |-> 0]
    /\ spawned = <<>>
    /\ completion = <<>>

\* One iteration of the inner loop, lines 337-353: a thread is spawned for the
\* next column of the batch.
Spawn ==
    /\ pc = "spawn"
    /\ Len(thread_pool) < BatchSize
    /\ ~PastLastColumn(Len(thread_pool), step, bounds.width)
    /\ LET column == UnitColumn(step, Len(thread_pool))
       IN  /\ thread_pool' = Append(thread_pool,
                    [column |-> column, status |-> "running", pixels |-> <<>>])
           /\ spawned' = Append(spawned, column)
    /\ UNCHANGED <<pc, environment, codec, sampler, anchor_points, anchors, call,
                   step, joined, output_image_buffer, put_calls, completion>>

\* The inner loop ends, after BatchSize threads or at the break of line 339.
SpawnDone ==
    /\ pc = "spawn"
    /\ \/ Len(thread_pool) >= BatchSize
       \/ PastLastColumn(Len(thread_pool), step, bounds.width)
    /\ pc' = "join"
    /\ joined' = 0
    /\ UNCHANGED <<environment, codec, sampler, anchor_points, anchors, call,
                   step, thread_pool, output_image_buffer, put_calls, spawned, completion>>

\* A thread that runs to its end and writes the output image itself.
UnitRunAndPut ==
    /\ pc \in {"spawn", "join", "panicked"}
    /\ \E i \in 1..Len(thread_pool) :
        /\ thread_pool[i].status = "running"
        /\ LET pixels == pixel_calculator(thread_pool[i].column, bounds.height,
                                          anchors, minimum_distance)
           IN  /\ thread_pool' = [thread_pool EXCEPT ![i].status = "done",
                                                     ![i].pixels = <<>>]
               /\ output_image_buffer' = put_pixels(output_image_buffer, pixels)
               /\ put_calls' = count_puts(put_calls, pixels)
        /\ completion' = Append(completion, thread_pool[i].column)
    /\ UNCHANGED <<pc, environment, codec, sampler, anchor_points, anchors, call,
                   step, joined, spawned>>

\* A thread runs pixel_calculator on its own clone of the anchors (lines
\* 341-349) to its end; nothing it does before its end is seen by another
\* thread.
UnitRun ==
    /\ pc \in {"spawn", "join", "panicked"}
    /\ \E i \in 1..Len(thread_pool) :
        /\ thread_pool[i].status = "running"
        /\ thread_pool' = [thread_pool EXCEPT
                ![i].status = "done",
                ![i].pixels = pixel_calculator(thread_pool[i].column, bounds.height,
                                               anchors, minimum_distance)]
        /\ completion' = Append(completion, thread_pool[i].column)
    /\ UNCHANGED <<pc, environment, codec, sampler, anchor_points, anchors, call,
                   step, joined, output_image_buffer, put_calls, spawned>>

\* A thread panics: the println! of line 206 panics when standard output
\* cannot be written.
UnitPanic ==
    /\ pc \in {"spawn", "join", "panicked"}
    /\ \E i \in 1..Len(thread_pool) :
        /\ thread_pool[i].status = "running"
        /\ thread_pool' = [thread_pool EXCEPT ![i].status = "panicked"]
        /\ completion' = Append(completion, thread_pool[i].column)
    /\ UNCHANGED <<pc, environment, codec, sampler, anchor_points, anchors, call,
                   step, joined, output_image_buffer, put_calls, spawned>>

\* thread.join() returns Ok(pixels) and the pixels are put (lines 356-365).
\* join blocks until the thread has ended.
JoinOk ==
    /\ pc = "join"
    /\ joined < Len(thread_pool)
    /\ thread_pool[joined + 1].status = "done"
    /\ LET pixels == JoinedPixels(thread_pool, joined + 1, completion)
       IN  /\ output_image_buffer' = put_pixels(output_image_buffer, pixels)
           /\ put_calls' = count_puts(put_calls, pixels)
    /\ joined' = joined + 1
    /\ UNCHANGED <<pc, environment, codec, sampler, anchor_points, anchors, call,
                   step, thread_pool, spawned, completion>>

\* A join that drops the panic of its thread and goes on.
JoinErrSwallowed ==
    /\ pc = "join"
    /\ joined < Len(thread_pool)
    /\ thread_pool[joined + 1].status = "panicked"
    /\ joined' = joined + 1
    /\ UNCHANGED <<pc, environment, codec, sampler, anchor_points, anchors, call,
                   step, thread_pool, output_image_buffer, put_calls, spawned, completion>>

\* thread.join() returns Err(message) and main resumes the panic (lines
\* 366-368).
JoinErr ==
    /\ pc = "join"
    /\ joined < Len(thread_pool)
    /\ thread_pool[joined + 1].status = "panicked"
    /\ pc' = "panicked"
    /\ UNCHANGED <<environment, codec, sampler, anchor_points, anchors, call, painter>>

\* The loop of joins ends; the outer loop goes to its next step, or ends
\* (line 335).
BatchDone ==
    /\ pc = "join"
    /\ joined = Len(thread_pool)
    /\ step' = step + BatchSize
    /\ pc' = IF step' >= bounds.width THEN "save" ELSE "spawn"
    /\ thread_pool' = <<>>
    /\ joined' = 0
    /\ completion' = <<>>
    /\ UNCHANGED <<environment, codec, sampler, anchor_points, anchors, call,
                   output_image_buffer, put_calls, spawned>>

\* output_image_buffer.save(output_path).unwrap(), line 373: the image is
\* saved, or the save fails and main panics.
SaveImage ==
    /\ pc = "save"
    /\ pc' \in {"saved", "panicked"}
    /\ UNCHANGED <<environment, codec, sampler, anchor_points, anchors, call, painter>>

NextPaint ==
    \/ Spawn
    \/ SpawnDone
    \/ UnitRun
    \/ UnitPanic
    \/ JoinOk
    \/ JoinErr
    \/ BatchDone
    \/ SaveImage

SpecPaint == InitPaint /\ [][NextPaint]_vars

\* ================================================================ claims

PairwiseApart(points, d) ==
    \A i, j \in 1..Len(points) :
        i # j => squared_distance_from(points[i], points[j]) >= d * d

\* main holds points that generate_anchor_points returned.
HoldsGenerated ==
    mode = "main" /\ final_anchors # <<>> /\ pc \in {"write", "colorize", "paint", "panicked"}

\* C1: at every step of generate_anchor_points, and in the list it returns to
\* main, any two distinct accepted anchors are at squared distance at least
\* minimum_distance squared.
C1_MinimumDistance ==
    /\ PairwiseApart(final_anchors, minimum_distance)
    /\ HoldsGenerated => PairwiseApart(anchor_points, minimum_distance)

\* C1 witness: with two anchors accepted, the candidate at the front of the
\* frontier is too close to one of them without being one of them.
C1_Witness ==
    /\ pc = "pop"
    /\ Len(final_anchors) >= 2
    /\ anchor_candidates # <<>>
    /\ ~is_valid_anchor(Head(anchor_candidates), final_anchors, minimum_distance)
    /\ \A i \in 1..Len(final_anchors) : final_anchors[i] # Head(anchor_candidates)

StrictlyInside(point, bnd) ==
    0 < point.x /\ point.x < bnd.width /\ 0 < point.y /\ point.y < bnd.height

\* C2 as claimed: the seed, every candidate and every accepted anchor lie
\* strictly inside the bounds.
C2_AllStrictlyInside ==
    /\ \A i \in 1..Len(final_anchors) : StrictlyInside(final_anchors[i], bounds)
    /\ \A i \in 1..Len(anchor_candidates) : StrictlyInside(anchor_candidates[i], bounds)

\* C2 as amended: every candidate and every accepted anchor but the seed lie
\* strictly inside the bounds; the seed satisfies 0 <= x < width and
\* 0 <= y < height.
C2_CandidatesStrictlyInside ==
    /\ \A i \in 2..Len(final_anchors) : StrictlyInside(final_anchors[i], bounds)
    /\ \A i \in 1..Len(anchor_candidates) : StrictlyInside(anchor_candidates[i], bounds)
    /\ final_anchors # <<>> =>
            /\ 0 <= final_anchors[1].x /\ final_anchors[1].x < bounds.width
            /\ 0 <= final_anchors[1].y /\ final_anchors[1].y < bounds.height

\* C2 witness: the seed lies on the edge x = 0, an anchor has been accepted
\* after it and candidates are waiting.
C2_Witness ==
    /\ Len(final_anchors) >= 2
    /\ final_anchors[1].x = 0
    /\ anchor_candidates # <<>>

\* C3: generate_anchor_points, once called, returns.
C3_SamplerTerminates == (pc = "seed") ~> (pc = "generated")

\* C4: a save in which File::create and every write_all succeed, followed by
\* a load of the same path, returns the saved points: same count, order,
\* coordinates.
C4_RoundTrip ==
    (pc = "loaded" /\ write_result = "ok" /\ ~write_failed)
        => read_result = Ok(anchor_points)

\* C4 witness: two different points, with different x and y, were saved
\* without a failure and loaded.
C4_Witness ==
    /\ pc = "loaded" /\ write_result = "ok" /\ ~write_failed
    /\ Len(anchor_points) >= 2
    /\ anchor_points[1] # anchor_points[2]
    /\ anchor_points[1].x # anchor_points[1].y

\* C5 as claimed: a load of a path that does not exist returns an empty list
\* and no error.
C5_MissingIsEmpty ==
    (pc = "loaded" /\ ~file.exists) => read_result = Ok(<<>>)

\* C5 as amended: a load of a path that does not exist returns the error of
\* File::open.
C5_MissingIsError ==
    (pc = "loaded" /\ ~file.exists) => read_result = Err

\* C5 witness: a path that does not exist has been loaded.
C5_Witness == pc = "loaded" /\ ~file.exists

\* C6: a load of an existing file of any length returns, without an error,
\* floor(length / 16) points; when the file is what a save cut short has
\* left, they are the first floor(length / 16) points saved, in order.  An
\* empty file gives the empty list.
C6_TruncatedTail ==
    (pc = "loaded" /\ file.exists) =>
        /\ read_result.ok
        /\ Len(read_result.points) = Len(file.bytes) \div 16
        /\ ~write_failed =>
                read_result.points = Take(anchor_points, Len(file.bytes) \div 16)

\* C6 witness: a file of 24 bytes, one pair and a lone x, has been loaded.
C6_Witness ==
    pc = "loaded" /\ file.exists /\ write_result = "none" /\ Len(file.bytes) = 24

\* The cache file main found is cut short or empty.
TruncatedCache ==
    read_result.ok /\ (file.bytes = <<>> \/ Len(file.bytes) % 16 # 0)

\* C7: with --anchors and a cache file that is missing, cut short or empty,
\* main regenerates the points with the sampler and paints with them.
C7_RegeneratesOnBadCache ==
    (mode = "main" /\ pc = "colorize" /\ anchors_arg
        /\ (read_result = Err \/ TruncatedCache))
        => (final_anchors # <<>> /\ anchor_points = final_anchors)

SquaredDistanceTo(p, list, i) == squared_distance_from(p, list[i].point)

\* The indices of the anchors of the list at minimal squared distance from p.
Nearest(p, list) ==
    {i \in 1..Len(list) :
        \A j \in 1..Len(list) : SquaredDistanceTo(p, list, i) <= SquaredDistanceTo(p, list, j)}

Min(S) == CHOOSE i \in S : \A j \in S : i <= j

\* C8: closest_anchor returns an anchor of the list at minimal squared
\* distance from p, and nothing exactly when the list is empty.
C8_ReturnsNearest ==
    call.op = "closest_anchor" =>
        /\ (call.result = None) <=> (anchors = <<>>)
        /\ call.result # None =>
                \E i \in Nearest(call.p, anchors) : call.result = Some(anchors[i])

\* C9: when several anchors are at the minimal squared distance from p,
\* closest_anchor returns the one that comes first in the list.
C9_FirstWinsTies ==
    (call.op = "closest_anchor" /\ Cardinality(Nearest(call.p, anchors)) >= 2)
        => call.result = Some(anchors[Min(Nearest(call.p, anchors))])

\* The colours pixel_calculator recorded for a pixel.
ColoursOf(pixels, point) ==
    {pixels[k][2] : k \in {n \in 1..Len(pixels) : pixels[n][1] = point}}

\* The scenario of C10, in lattice units: anchors (0,0) and (2d,0) in that
\* order, column d.
TieScenario ==
    anchor_points = <<Point(0, 0), Point(2 * minimum_distance, 0)>>

\* C10: pixel_calculator on column d of the scenario gives the pixel (d,0), at
\* the same distance from both anchors, the colour of the first anchor (0,0);
\* and on any column, a pixel at the same minimal distance from several of
\* the anchors the column filter keeps gets the colour of the first of them.
C10_FirstKeptWinsTies ==
    call.op = "pixel_calculator" =>
        LET kept == filter_anchors(anchors, call.x, minimum_distance)
        IN  /\ (TieScenario /\ call.x = minimum_distance) =>
                    ColoursOf(call.pixels, Point(call.x, 0)) = {anchors[1].color}
            /\ \A y \in 0..(bounds.height - 1) :
                    LET p == Point(call.x, y)
                    IN  Cardinality(Nearest(p, kept)) >= 2 =>
                            ColoursOf(call.pixels, p) = {kept[Min(Nearest(p, kept))].color}
\* The indices of the anchors whose x lies strictly between x - d and x + d.
StrictlyWithin(list, x, d) ==
    {i \in 1..Len(list) : x - d < list[i].point.x /\ list[i].point.x < x + d}

\* The k-th smallest element of a set of indices.
NthOf(K, k) == CHOOSE i \in K : Cardinality({j \in K : j <= i}) = k

\* C11: for column x and minimum distance d, pixel_calculator keeps exactly
\* the anchors with x - d < anchor.x < x + d, both bounds strict, in the order
\* of the list, also on the columns x < d where x - d is negative.
C11_ColumnFilter ==
    call.op = "pixel_calculator" =>
        LET K == StrictlyWithin(anchors, call.x, minimum_distance)
        IN  /\ Len(call.filtered_anchors) = Cardinality(K)
            /\ \A k \in 1..Cardinality(K) : call.filtered_anchors[k] = anchors[NthOf(K, k)]

\* C11 witness: on a column x < d, of two anchors at x + d and at x + d - 1
\* in that order, the filter has dropped the first and kept the second.
C11_Witness ==
    /\ call.op = "pixel_calculator"
    /\ call.x < minimum_distance
    /\ Len(anchors) = 2
    /\ anchors[1].point.x = call.x + minimum_distance
    /\ anchors[2].point.x = call.x + minimum_distance - 1
    /\ call.filtered_anchors = <<anchors[2]>>
\* C19: on a list whose anchors are pairwise at squared distance at least
\* minimum_distance squared, closest_anchor returns, for every p, an anchor at
\* minimal squared distance from p: the early-accept branch neither replaces
\* a closer incumbent nor is overridden by a farther later anchor.
C19_ShortcutSound ==
    (call.op = "closest_anchor" /\ PairwiseApart(anchor_points, minimum_distance)
        /\ anchors # <<>>)
        => /\ call.index \in Nearest(call.p, anchors)
           /\ call.result = Some(anchors[call.index])

\* C19 witness: two anchors exactly the minimum distance apart, and a p below
\* half the minimum distance from the second: the early-accept branch has
\* replaced the first anchor, the incumbent, by the second.
C19_Witness ==
    /\ call.op = "closest_anchor"
    /\ Len(anchors) = 2
    /\ squared_distance_from(anchor_points[1], anchor_points[2])
            = minimum_distance * minimum_distance
    /\ BelowHalfDistance(SquaredDistanceTo(call.p, anchors, 2), minimum_distance)
    /\ call.index = 2
\* C18: whether the sampler generated them or the cache file held them, the
\* points main hands to the colorizer truncate to pixels of the image, and the
\* lookup of their colour does not panic.
C18_LookupInBounds ==
    /\ (mode = "main" /\ pc = "colorize") =>
            \A i \in 1..Len(anchor_points) :
                PixelInImage(AsU32(anchor_points[i].x), AsU32(anchor_points[i].y), bounds)
    /\ mode = "main" => pc # "panicked"
\* The counts of the frontier: between two rounds of candidates, NumCandidates
\* candidates have been generated for every accepted anchor; every candidate
\* generated is waiting or has been examined, once; generate_anchor_points
\* returns with every candidate examined, and main receives the anchors in
\* the order of acceptance.
FrontierCounts ==
    /\ (final_anchors # <<>> /\ pc # "gen")
            => generated = NumCandidates * Len(final_anchors)
    /\ pc = "gen"
            => generated = NumCandidates * Len(final_anchors) - gen_left
    /\ examined + Len(anchor_candidates) = generated
    /\ pc = "generated" => (anchor_candidates = <<>> /\ examined = generated)
    /\ HoldsGenerated => anchor_points = final_anchors

\* The steps of the frontier: a candidate is pushed at the tail, or the
\* candidate at the front is popped; a popped candidate that is rejected
\* leaves the anchors alone and starts no round of candidates, one that is
\* accepted becomes the last anchor and starts a round of NumCandidates.  The
\* anchors only grow at their end, from the seed.
FrontierStep ==
    \/ /\ anchor_candidates' = anchor_candidates
       /\ \/ final_anchors' = final_anchors
          \/ final_anchors = <<>> /\ Len(final_anchors') = 1
    \/ /\ Len(anchor_candidates') = Len(anchor_candidates) + 1
       /\ SubSeq(anchor_candidates', 1, Len(anchor_candidates)) = anchor_candidates
       /\ final_anchors' = final_anchors
    \/ /\ anchor_candidates # <<>>
       /\ anchor_candidates' = Tail(anchor_candidates)
       /\ examined' = examined + 1
       /\ IF is_valid_anchor(Head(anchor_candidates), final_anchors, minimum_distance)
          THEN /\ final_anchors' = Append(final_anchors, Head(anchor_candidates))
               /\ pc' = "gen" /\ gen_left' = NumCandidates
          ELSE /\ final_anchors' = final_anchors
               /\ pc' = "pop" /\ gen_left' = gen_left /\ generated' = generated

\* C17: the frontier is a FIFO queue: candidates are examined in the order of
\* their generation, each once; a rejected candidate is not queued again and
\* spawns nothing; an accepted one is appended to the anchors and appends
\* NumCandidates (25 in the program) candidates to the tail, so that at every
\* iteration the candidates generated number NumCandidates times the anchors;
\* the anchors are returned in the order of acceptance, the seed first.
C17_FrontierDiscipline == []FrontierCounts /\ [][FrontierStep]_vars

\* C17 witness: with two anchors accepted, more candidates have been examined
\* than accepted, and the candidate at the front is about to be examined.
C17_Witness ==
    /\ pc = "pop"
    /\ Len(final_anchors) >= 2
    /\ examined > Len(final_anchors) - 1
    /\ anchor_candidates # <<>>

\* A unit of the pool is still running.
Running(i) == thread_pool[i].status = "running"

\* The column has an anchor within the minimum distance.
ColumnHasAnchor(x) ==
    \E i \in 1..Len(anchors) : Abs(anchors[i].point.x - x) < minimum_distance

\* The output image takes no more writes: the loops are over, or the last
\* thread of the last batch has been joined.
RasterFinal ==
    \/ pc \in {"save", "saved"}
    \/ pc = "join" /\ joined = Len(thread_pool) /\ step + BatchSize >= bounds.width

\* C12: no pixel is ever written twice; after a complete run every pixel of a
\* column that has an anchor within the minimum distance has been written
\* once, and every other pixel has not been written and keeps the default.
C12_WrittenOnce ==
    /\ \A pixel \in Pixels(bounds) : put_calls[pixel] <= 1
    /\ pc \in {"save", "saved"} =>
            \A pixel \in Pixels(bounds) :
                /\ put_calls[pixel] = IF ColumnHasAnchor(pixel.x) THEN 1 ELSE 0
                /\ (output_image_buffer[pixel] = None) <=> ~ColumnHasAnchor(pixel.x)

\* C12 witness: a run over more than one batch is complete, with a column
\* written and a column left at the default.
C12_Witness ==
    /\ pc = "saved"
    /\ bounds.width > BatchSize
    /\ \E pixel \in Pixels(bounds) : put_calls[pixel] = 1
    /\ \E pixel \in Pixels(bounds) : put_calls[pixel] = 0

\* The output image as the anchors alone determine it: the pixel (x, y) has
\* the colour pixel_calculator records for it on column x, if any.
ExpectedRaster ==
    [pixel \in Pixels(bounds) |->
        LET colours == ColoursOf(pixel_calculator(pixel.x, bounds.height, anchors,
                                                  minimum_distance), pixel)
        IN  IF colours = {} THEN None ELSE Some(CHOOSE c \in colours : TRUE)]

\* C13: for given anchors and image size the final output image is the same
\* whatever the order in which the threads of a batch run and end: every
\* pixel holds what the thread of its own column computed.
C13_ScheduleIndependent ==
    RasterFinal => output_image_buffer = ExpectedRaster

\* C13 witness: the threads of the last batch ended in the reverse of the
\* order of their spawn, all have been joined, and pixels were written.
C13_Witness ==
    /\ pc = "join"
    /\ step > 0
    /\ step + BatchSize >= bounds.width
    /\ Len(thread_pool) >= 2
    /\ joined = Len(thread_pool)
    /\ completion[1] > completion[2]
    /\ \E k \in 1..Len(thread_pool) : thread_pool[k].pixels # <<>>

\* A unit of the pool has panicked.
UnitPanicked == \E i \in 1..Len(thread_pool) : thread_pool[i].status = "panicked"

\* The step of a run in which a unit has panicked: the unit stays panicked,
\* no later batch starts and the image is not saved; when main joins the
\* unit its only step is the panic, and after the panic main does nothing.
AfterUnitPanic ==
    UnitPanicked =>
        /\ UnitPanicked'
        /\ step' = step
        /\ pc' \in {"spawn", "join", "panicked"}
        /\ (pc = "join" /\ joined < Len(thread_pool)
                /\ thread_pool[joined + 1].status = "panicked")
                => (pc' = "panicked" \/ UNCHANGED <<pc, joined, output_image_buffer>>)
        /\ pc = "panicked" => UNCHANGED <<pc, joined, output_image_buffer>>

\* C14: when a column unit panics, main resumes the panic at the join of that
\* unit, starts no later batch and never saves the output image, whatever
\* the other units of the batch do.
C14_WorkerFailureFatal == [][AfterUnitPanic]_vars

\* C14 witness: main has joined a unit, found the next one panicked and
\* resumed the panic, while a unit of the batch had ended after the panicked
\* one.
C14_Witness ==
    /\ pc = "panicked"
    /\ joined >= 1
    /\ joined < Len(thread_pool)
    /\ thread_pool[joined + 1].status = "panicked"
    /\ completion # <<>>
    /\ completion[Len(completion)] # thread_pool[joined + 1].column

\* The batch in every state: at most BatchSize units exist, they are the
\* units of the columns step, step + 1, ... of the image; the columns spawned
\* so far are 0, 1, 2, ... in that order, one unit each, those before step
\* being joined and gone; after the loops every column of the image has been
\* spawned.
BatchShape ==
    /\ Len(thread_pool) <= BatchSize
    /\ Cardinality({i \in 1..Len(thread_pool) : Running(i)}) <= BatchSize
    /\ step % BatchSize = 0
    /\ \A i \in 1..Len(thread_pool) :
            /\ thread_pool[i].column = step + i - 1
            /\ thread_pool[i].column < bounds.width
    /\ spawned = [k \in 1..Len(spawned) |-> k - 1]
    /\ pc \in {"spawn", "join"} => Len(spawned) = step + Len(thread_pool)
    /\ pc \in {"save", "saved"} => (Len(spawned) = bounds.width /\ thread_pool = <<>>)

\* The batch changes only when every unit of it has been joined, and the next
\* batch starts BatchSize columns further.
BatchStep ==
    step' # step =>
        /\ joined = Len(thread_pool)
        /\ \A i \in 1..Len(thread_pool) : thread_pool[i].status = "done"
        /\ step' = step + BatchSize

\* C15: at most BatchSize (10 in the program) units run at any moment, all of
\* the same batch of consecutive columns; the batches start in increasing
\* column order, none before every unit of the one before has been joined;
\* every column of the image is processed by one unit, the columns of a
\* shorter last batch included.
C15_BatchBarrier == []BatchShape /\ [][BatchStep]_vars

\* C15 witness: the last batch is shorter than BatchSize and its first unit
\* is running while main waits to join it.
C15_Witness ==
    /\ pc = "join"
    /\ step > 0
    /\ thread_pool # <<>>
    /\ Len(thread_pool) < BatchSize
    /\ Running(1)

\* C16 as claimed: pixels of a batch are in the output image only when no unit
\* of the batch is still running.
C16_WritesAfterBarrier ==
    (\E k \in 1..joined : thread_pool[k].pixels # <<>>)
        => \A i \in 1..Len(thread_pool) : ~Running(i)

\* The step that changes the output image: main's join of the next unit of
\* the pool, which has ended and whose pixels are the ones put.
RasterStep ==
    (output_image_buffer' # output_image_buffer \/ put_calls' # put_calls) =>
        /\ pc = "join" /\ pc' = "join"
        /\ joined < Len(thread_pool)
        /\ joined' = joined + 1
        /\ thread_pool[joined + 1].status = "done"
        /\ thread_pool' = thread_pool
        /\ output_image_buffer' = put_pixels(output_image_buffer, thread_pool[joined + 1].pixels)

\* C16 as amended: the output image is written only by main, and the pixels
\* of a unit only in the step that joins the unit, after it has ended; later
\* units of the same batch may still be running then.  Every write of a batch
\* comes before the first spawn of the next batch.
C16_WritesAfterJoin ==
    /\ [][RasterStep]_vars
    /\ [](pc = "spawn" => joined = 0)
    /\ [][(step' # step) => joined = Len(thread_pool)]_vars

\* C16 witness: the pixels of the first unit of a batch are in the output
\* image while a later unit of the batch is still running.
C16_Witness ==
    /\ pc = "join"
    /\ joined >= 1
    /\ thread_pool[1].pixels # <<>>
    /\ output_image_buffer[thread_pool[1].pixels[1][1]] # None
    /\ \E i \in (joined + 1)..Len(thread_pool) : Running(i)
====
